---- MODULE Spec2Model ----
(***************************************************************************)
(* A model of word_number_formatter.py: the thousands formatter            *)
(* (format_number), the number scanner (number_pattern + process_text),    *)
(* the run reconciler (process_paragraph), the document driver             *)
(* (process_document) and the GUI's hand-off to its worker thread.         *)
(*                                                                         *)
(* A text is a sequence of characters; a character is a one-element        *)
(* string, except the six CJK unit markers, which are written by their     *)
(* pinyin: "nian" (year), "yue" (month), "ri" (day), "shi" (hour),         *)
(* "fen" (minute), "miao" (second).                                        *)
(***************************************************************************)
EXTENDS Integers, Sequences, FiniteSets, TLC

VARIABLES
    num_str,      \* format_number: its argument
    result,       \* format_number: its return value, NoValue before the call
    cur_text,     \* a paragraph's text, rewritten by each pass of process_text
    original,     \* the text the last pass of process_text was given, NoValue before it
    runs,         \* process_paragraph: the paragraph's runs, in order
    runs_before,  \* <<the runs the last call of process_paragraph was given>>, <<>> before it
    doc_pc,           \* process_document: "start", "processing", "returned" or "raised"
    input_file,       \* process_document's parameter
    output_file,      \* process_document's parameter, None when absent; line 168 assigns it
    given_output,     \* the output_file the caller passed
    doc,              \* <<the document in memory>>, <<>> before it is opened
    paragraph_count,  \* the top-level paragraphs processed
    table_count,      \* the tables processed
    disk,             \* the files: path -> a document, or Absent, or Partial
    disk_before,      \* the files when process_document was called
    save_calls,       \* how many times doc.save was invoked
    saved,            \* doc.save returned
    doc_result,       \* <<the returned dict>>, <<>> before process_document returns
    self_input_file,      \* WordFormatterGUI.input_file, None before a selection
    self_output_file,     \* WordFormatterGUI.output_file, None before a selection
    overwrite_var,        \* the overwrite / save-as radio buttons' variable
    output_frame_shown,   \* output_select_frame is packed
    process_btn,          \* the start button's state: "normal" or "disabled"
    worker_pc,            \* the worker thread's position in _process_file_thread
    output,               \* _process_file_thread's local
    call,                 \* <<the arguments of the worker's process_document call>>, or <<>>
    pressed               \* <<the selections when the worker was started>>, or <<>>

formatVars == <<num_str, result>>
textVars == <<cur_text, original>>
paragraphVars == <<runs, runs_before>>
documentVars == <<doc_pc, input_file, output_file, given_output, doc, paragraph_count,
                  table_count, disk, disk_before, save_calls, saved, doc_result>>

guiVars == <<self_input_file, self_output_file, overwrite_var, output_frame_shown,
             process_btn, worker_pc, output, call, pressed>>

vars == <<formatVars, textVars, paragraphVars, documentVars, guiVars>>

NoValue == <<"<none>">>

(***************************************************************************)
(* Characters                                                              *)
(***************************************************************************)
Digit == {"0", "1", "2", "3", "4", "5", "6", "7", "8", "9"}

\* the letters the model's texts draw on
Letter == {"a"}

CJKMarker == {"nian", "yue", "ri", "shi", "fen", "miao"}

\* what \w matches (Python 3 str patterns are Unicode: CJK characters are word characters)
WordChar == Digit \cup Letter \cup CJKMarker \cup {"_"}

DigitVal(c) ==
    CASE c = "0" -> 0 [] c = "1" -> 1 [] c = "2" -> 2 [] c = "3" -> 3
      [] c = "4" -> 4 [] c = "5" -> 5 [] c = "6" -> 6 [] c = "7" -> 7
      [] c = "8" -> 8 [] c = "9" -> 9

DigitChar(d) ==
    CASE d = 0 -> "0" [] d = 1 -> "1" [] d = 2 -> "2" [] d = 3 -> "3"
      [] d = 4 -> "4" [] d = 5 -> "5" [] d = 6 -> "6" [] d = 7 -> "7"
      [] d = 8 -> "8" [] d = 9 -> "9"

\* s[from..] and s[from..to) with Python's 0-based slices written 1-based
Drop(s, k) == SubSeq(s, k + 1, Len(s))

RECURSIVE Concat(_)
\* the concatenation of a sequence of sequences
Concat(ss) == IF ss = <<>> THEN <<>> ELSE Head(ss) \o Concat(Tail(ss))

IsDigits(s) == Len(s) >= 1 /\ \A i \in 1..Len(s) : s[i] \in Digit

\* the positions of character c in s
Positions(s, c) == {i \in 1..Len(s) : s[i] = c}

(***************************************************************************)
(* format_number                                                           *)
(***************************************************************************)
\* int(x) raises ValueError unless x is an optionally signed digit string
IntRaises(x) ==
    IF Len(x) >= 1 /\ x[1] = "-" THEN ~IsDigits(Drop(x, 1)) ELSE ~IsDigits(x)

RECURSIVE DigitsValue(_)
\* the value of a short digit string
DigitsValue(s) ==
    IF Len(s) = 0 THEN 0
    ELSE 10 * DigitsValue(SubSeq(s, 1, Len(s) - 1)) + DigitVal(s[Len(s)])

RECURSIVE StripZeros(_)
StripZeros(s) == IF Len(s) >= 1 /\ s[1] = "0" THEN StripZeros(Drop(s, 1)) ELSE s

RECURSIVE Limbs(_)
\* the magnitude of a digit string without leading zeros, in base 1000, most
\* significant limb first
Limbs(s) ==
    IF Len(s) <= 3 THEN <<DigitsValue(s)>>
    ELSE Limbs(SubSeq(s, 1, Len(s) - 3)) \o <<DigitsValue(Drop(s, Len(s) - 3))>>

\* int(x), for x on which it does not raise: Python's integers are unbounded, so
\* the value is held as a sign and base-1000 limbs
IntOf(x) ==
    LET negative == x[1] = "-"
        limbs    == Limbs(StripZeros(IF negative THEN Drop(x, 1) ELSE x))
    IN  [neg |-> negative /\ limbs # <<0>>, limbs |-> limbs]

RECURSIVE Decimal(_)
\* str(n) for a small n >= 0
Decimal(n) ==
    IF n < 10 THEN <<DigitChar(n)>>
    ELSE Decimal(n \div 10) \o <<DigitChar(n % 10)>>

\* a slip: a further limb written without its leading zeros
ThreeDigitsUnpadded(n) == Decimal(n)

ThreeDigits(n) ==
    <<DigitChar(n \div 100), DigitChar((n \div 10) % 10), DigitChar(n % 10)>>

RECURSIVE Grouped(_)
\* "{:,}".format of a magnitude: the leading limb as it is, then each further
\* limb as a comma and three digits
Grouped(limbs) ==
    IF Len(limbs) = 1 THEN Decimal(limbs[1])
    ELSE Grouped(SubSeq(limbs, 1, Len(limbs) - 1)) \o <<",">> \o ThreeDigits(limbs[Len(limbs)])

\* "{:,}".format(n)
CommaFormat(n) == IF n.neg THEN <<"-">> \o Grouped(n.limbs) ELSE Grouped(n.limbs)

\* a slip: the decimal part parsed and formatted like the integer part
JoinDecimalRegrouped(formatted_integer, decimal_part) ==
    formatted_integer \o <<".">> \o Grouped(Limbs(StripZeros(decimal_part)))

\* result = f"{formatted_integer}.{decimal_part}"
JoinDecimal(formatted_integer, decimal_part) ==
    formatted_integer \o <<".">> \o decimal_part

\* if is_negative: result = '-' + result
Signed(is_negative, r) == IF is_negative THEN <<"-">> \o r ELSE r

format_number(s) ==
    LET is_negative == Len(s) >= 1 /\ s[1] = "-"
        body        == IF is_negative THEN Drop(s, 1) ELSE s
        dots        == Positions(body, ".")
        failed      == IF is_negative THEN <<"-">> \o body ELSE body
    IN  IF dots # {}
        THEN IF Cardinality(dots) # 1 THEN failed   \* unpacking split('.') raises
             ELSE LET p            == CHOOSE i \in dots : TRUE
                      integer_part == SubSeq(body, 1, p - 1)
                      decimal_part == Drop(body, p)
                  IN  IF IntRaises(integer_part) THEN failed
                      ELSE Signed(is_negative,
                                  JoinDecimal(CommaFormat(IntOf(integer_part)), decimal_part))
        ELSE IF IntRaises(body) THEN failed
             ELSE Signed(is_negative, CommaFormat(IntOf(body)))

(***************************************************************************)
(* number_pattern and process_text                                         *)
(*                                                                         *)
(* Positions are 1-based; a span <<start, end>> covers text[start..end-1], *)
(* as match.span() does with 0-based indexes.                              *)
(***************************************************************************)
\* (?<![/\w]) before position pos
LookbehindOk(text, pos) ==
    pos = 1 \/ text[pos - 1] \notin ({"/"} \cup WordChar)

\* (?!\w|[-/年月日时分秒%]) at position e, the first position after the match
LookaheadOk(text, e) ==
    e > Len(text) \/ text[e] \notin (WordChar \cup {"-", "/", "%"} \cup CJKMarker)

RECURSIVE DigitRun(_, _)
\* how many digits text holds from position p on
DigitRun(text, p) ==
    IF p <= Len(text) /\ text[p] \in Digit THEN 1 + DigitRun(text, p + 1) ELSE 0

\* \d+(?:\.\d+)?(?!...) from position ds: <<i, m>> is i digits and, when m > 0, a
\* point and m digits; the regex engine tries more digits first, and the optional
\* group before its absence. The end of the first alternative whose lookahead
\* holds, 0 when none does.
DigitsMatchEnd(text, ds) ==
    LET End(i, m) == IF m = 0 THEN ds + i ELSE ds + i + 1 + m
        DecLens(q) == IF q <= Len(text) /\ text[q] = "."
                      THEN 0..DigitRun(text, q + 1) ELSE {0}
        viable == UNION {{<<i, m>> : m \in {k \in DecLens(ds + i) : LookaheadOk(text, End(i, k))}} :
                         i \in 1..DigitRun(text, ds)}
    IN  IF viable = {} THEN 0
        ELSE LET c == CHOOSE c \in viable : \A d \in viable :
                          c[1] > d[1] \/ (c[1] = d[1] /\ c[2] >= d[2])
             IN  End(c[1], c[2])

\* number_pattern.match at pos: the match's end, 0 when there is none
MatchEnd(text, pos) ==
    IF ~LookbehindOk(text, pos) THEN 0
    ELSE IF text[pos] = "-" /\ DigitsMatchEnd(text, pos + 1) # 0
         THEN DigitsMatchEnd(text, pos + 1)
         ELSE DigitsMatchEnd(text, pos)

RECURSIVE finditer(_, _)
\* the non-overlapping matches of number_pattern from pos on, left to right
finditer(text, pos) ==
    IF pos > Len(text) THEN <<>>
    ELSE LET e == MatchEnd(text, pos)
         IN  IF e = 0 THEN finditer(text, pos + 1)
             ELSE <<<<pos, e>>>> \o finditer(text, e)

\* a slip: the period left out of the list
date_chars_without_period == CJKMarker \cup {"-", "/", "%"}

date_chars == CJKMarker \cup {"-", "/", ".", "%"}

year_chars == {"nian", "-", "/"}

YearLow == 1900
YearHigh == 2999
YearLen == 4
NextWindow == 2

\* a slip: text[end:end+1], the one character after the match
next_chars_one(text, end) == IF end <= Len(text) THEN {text[end]} ELSE {}

\* text[end:end+2], as a set of characters
next_chars(text, end) ==
    {text[i] : i \in {j \in end..(end + NextWindow - 1) : j <= Len(text)}}

is_year(s) ==
    /\ Len(s) = YearLen
    /\ IsDigits(s)
    /\ YearLow <= DigitsValue(s)
    /\ DigitsValue(s) <= YearHigh

replace_number(text, start, end) ==
    LET s      == SubSeq(text, start, end - 1)
        before == IF start > 1 THEN {text[start - 1]} ELSE {}
        after  == IF end <= Len(text) THEN {text[end]} ELSE {}
    IN  IF (before \cup after) \cap date_chars # {} THEN s
        ELSE IF is_year(s) /\ next_chars(text, end) \cap year_chars # {} THEN s
        ELSE format_number(s)

RECURSIVE Splice(_, _, _, _)
\* text from pos on, with each span replaced by the replacement of the same index
Splice(text, spans, repls, pos) ==
    IF spans = <<>> THEN Drop(text, pos - 1)
    ELSE SubSeq(text, pos, Head(spans)[1] - 1) \o Head(repls)
             \o Splice(text, Tail(spans), Tail(repls), Head(spans)[2])

\* number_pattern.sub(replace_number, text)
process_text(text) ==
    LET spans == finditer(text, 1)
    IN  Splice(text, spans,
               [i \in 1..Len(spans) |-> replace_number(text, spans[i][1], spans[i][2])], 1)

(***************************************************************************)
(* process_paragraph                                                       *)
(*                                                                         *)
(* A run is [id, text, shd]: its identity in the paragraph, its text, and  *)
(* the w:fill of its w:shd element (NoShd when it has none).               *)
(***************************************************************************)
NoShd == "none"
Yellow == "FFFF00"

\* paragraph.text: the runs' texts, concatenated
paragraph_text(rs) == Concat([i \in 1..Len(rs) |-> rs[i].text])

\* a slip: each run scanned and rewritten on its own
process_paragraph_per_run(rs) ==
    [i \in 1..Len(rs) |->
        IF process_text(rs[i].text) = rs[i].text THEN rs[i]
        ELSE [rs[i] EXCEPT !.text = process_text(rs[i].text), !.shd = Yellow]]

\* a slip: the runs rewritten without looking whether the text changed
process_paragraph_always(rs) ==
    IF paragraph_text(rs) = <<>> \/ Len(rs) = 0 THEN rs
    ELSE [i \in 1..Len(rs) |->
             IF i = 1 THEN [rs[i] EXCEPT !.text = process_text(paragraph_text(rs)), !.shd = Yellow]
             ELSE [rs[i] EXCEPT !.text = <<>>]]

\* the paragraph's runs after process_paragraph
process_paragraph(rs) ==
    LET full_text           == paragraph_text(rs)
        formatted_full_text == process_text(full_text)
    IN  IF full_text = <<>> \/ Len(rs) = 0 THEN rs
        ELSE IF full_text = formatted_full_text THEN rs
        ELSE [i \in 1..Len(rs) |->
                 IF i = 1 THEN [rs[i] EXCEPT !.text = formatted_full_text, !.shd = Yellow]
                 ELSE [rs[i] EXCEPT !.text = <<>>]]

(***************************************************************************)
(* process_table_cell and process_document                                 *)
(*                                                                         *)
(* A file is [kind, paragraphs, tables]: a document ("docx"), no file      *)
(* ("absent") or what a failed save left ("partial"). A paragraph is its   *)
(* sequence of runs; a table is a sequence of rows, a row a sequence of    *)
(* cells, a cell a sequence of paragraphs.                                 *)
(***************************************************************************)
None == "None"
Absent == [kind |-> "absent", paragraphs |-> <<>>, tables |-> <<>>]
Partial == [kind |-> "partial", paragraphs |-> <<>>, tables |-> <<>>]

\* for paragraph in cell.paragraphs: self.process_paragraph(paragraph)
process_table_cell(cell) == [k \in 1..Len(cell) |-> process_paragraph(cell[k])]

\* for row in table.rows: for cell in row.cells: self.process_table_cell(cell)
process_table(table) ==
    [r \in 1..Len(table) |-> [c \in 1..Len(table[r]) |-> process_table_cell(table[r][c])]]

\* a slip: doc.save outside the try block
TryBlockWithoutSave == {"open", "paragraph", "table"}

\* the steps inside the try block of process_document
TryBlock == {"open", "paragraph", "table", "save"}

\* the dict returned on success
SuccessResult ==
    [success |-> TRUE,
     message |-> <<"done", paragraph_count, table_count>>,
     output_file |-> IF output_file = None THEN input_file ELSE output_file]

\* the dict the except clause returns
FailureResult(step) ==
    [success |-> FALSE, message |-> <<"failed", step>>, output_file |-> None]

\* an exception raised by a step: caught inside the try block and turned into the
\* failure dict, propagated to the caller outside it
Raise(step) ==
    IF step \in TryBlock
    THEN doc_pc' = "returned" /\ doc_result' = <<FailureResult(step)>>
    ELSE doc_pc' = "raised" /\ doc_result' = doc_result

(***************************************************************************)
(* Bounds and input sets                                                   *)
(***************************************************************************)
MaxIntDigits == 7
MaxDecDigits == 2
MaxRawLen == 3
MaxPieces == 4
MaxRuns == 3
MaxDocParagraphs == 2
MaxDocTables == 1

\* the digits the formatter's inputs are written with
InputDigit == {"0", "1", "9"}

\* every sequence over S of length lo..hi
Strings(S, lo, hi) == UNION {[1..k -> S] : k \in lo..hi}

\* the literals of the numeric grammar (optional '-', digits, optional '.' and
\* digits) within the bounds
IsBoundedLiteral(s) ==
    \E sign \in {<<>>, <<"-">>} :
    \E int \in Strings(InputDigit, 1, MaxIntDigits) :
    \E dec \in {<<>>} \cup {<<".">> \o d : d \in Strings(InputDigit, 1, MaxDecDigits)} :
        s = sign \o int \o dec

\* short strings of any shape, most of them outside the grammar
IsRawString(s) == s \in Strings({"-", ".", "0", "1"}, 0, MaxRawLen)

\* the characters the texts put around numbers
ContextChar == {" ", "a", "-", ".", "/", "%", "nian", "yue"}

\* the digit strings the texts are built from
NumberChunk == {<<"5">>, <<"1", "0", "0", "0">>, <<"2", "0", "2", "4">>}

Piece == {<<c>> : c \in ContextChar} \cup NumberChunk

\* texts of up to MaxPieces pieces
IsPieceText(t) == \E ps \in Strings(Piece, 0, MaxPieces) : t = Concat(ps)

\* the four-digit values on both sides of the year range's ends, with the
\* characters replace_number looks at around them
IsYearText(t) ==
    \E pre \in Strings(ContextChar, 0, 1) :
    \E y \in {Decimal(YearLow - 1), Decimal(YearLow), Decimal(YearHigh), Decimal(YearHigh + 1)} :
    \E post \in Strings(ContextChar, 0, NextWindow) :
        t = pre \o y \o post

\* the texts of the runs: a number may be split over two runs
RunText == {<<>>, <<"1", "0">>, <<"0", "0", "0">>, <<" ">>, <<"a">>, <<"-">>}

\* the shading a run may carry before the call
Shading == {NoShd, Yellow, "00FF00"}

\* paragraphs of up to MaxRuns runs
IsBoundedParagraph(rs) ==
    \E k \in 0..MaxRuns :
    \E ts \in [1..k -> RunText] :
    \E fs \in [1..k -> Shading] :
        rs = [i \in 1..k |-> [id |-> i, text |-> ts[i], shd |-> fs[i]]]

\* the paragraphs a document is made of
DocParagraph ==
    {<<[id |-> 1, text |-> <<"1", "0">>, shd |-> NoShd],
       [id |-> 2, text |-> <<"0", "0", "0">>, shd |-> NoShd]>>,
     <<[id |-> 1, text |-> <<"a">>, shd |-> NoShd]>>}

\* the tables a document is made of: one row of one cell and of two cells
DocTable ==
    {<< << <<<<[id |-> 1, text |-> <<"-", "5", "0", "0", "0">>, shd |-> NoShd]>>>> >> >>,
     << << <<<<[id |-> 1, text |-> <<"5", "%">>, shd |-> NoShd]>>>>,
           <<<<[id |-> 1, text |-> <<"5", "0", "0", "0">>, shd |-> NoShd]>>,
             <<[id |-> 1, text |-> <<"a">>, shd |-> NoShd]>>>> >> >>}

Path == {"in.docx", "out.docx"}

FormatIdle == num_str = NoValue /\ result = NoValue
TextIdle == cur_text = NoValue /\ original = NoValue
ParagraphIdle == runs = <<>> /\ runs_before = <<>>
DocumentIdle ==
    /\ doc_pc = "idle" /\ input_file = None /\ output_file = None /\ given_output = None
    /\ doc = <<>> /\ paragraph_count = 0 /\ table_count = 0
    /\ disk = <<>> /\ disk_before = <<>> /\ save_calls = 0 /\ saved = FALSE
    /\ doc_result = <<>>
GuiIdle ==
    /\ self_input_file = None /\ self_output_file = None /\ overwrite_var = TRUE
    /\ output_frame_shown = FALSE /\ process_btn = "normal" /\ worker_pc = "none"
    /\ output = None /\ call = <<>> /\ pressed = <<>>

(***************************************************************************)
(* The formatter alone: one call of format_number on each input            *)
(***************************************************************************)
InitFormat ==
    /\ IsBoundedLiteral(num_str) \/ IsRawString(num_str)
    /\ result = NoValue
    /\ TextIdle
    /\ ParagraphIdle
    /\ DocumentIdle
    /\ GuiIdle

FormatNumber ==
    /\ result = NoValue
    /\ result' = format_number(num_str)
    /\ UNCHANGED <<num_str, textVars, paragraphVars, documentVars, guiVars>>

NextFormat == FormatNumber

SpecFormat == InitFormat /\ [][NextFormat]_vars

(***************************************************************************)
(* The scanner: passes of process_text over a text, each on the last       *)
(* pass's output                                                           *)
(***************************************************************************)
InitText ==
    /\ IsPieceText(cur_text) \/ IsYearText(cur_text)
    /\ original = NoValue
    /\ FormatIdle
    /\ ParagraphIdle
    /\ DocumentIdle
    /\ GuiIdle

ProcessText ==
    /\ cur_text' = process_text(cur_text)
    /\ original' = cur_text
    /\ UNCHANGED <<formatVars, paragraphVars, documentVars, guiVars>>

NextText == ProcessText

SpecText == InitText /\ [][NextText]_vars

(***************************************************************************)
(* The reconciler: calls of process_paragraph on a paragraph, each on the  *)
(* paragraph as the last call left it                                      *)
(***************************************************************************)
InitParagraph ==
    /\ IsBoundedParagraph(runs)
    /\ runs_before = <<>>
    /\ FormatIdle
    /\ TextIdle
    /\ DocumentIdle
    /\ GuiIdle

ProcessParagraph ==
    /\ runs' = process_paragraph(runs)
    /\ runs_before' = <<runs>>
    /\ UNCHANGED <<formatVars, textVars, documentVars, guiVars>>

NextParagraph == ProcessParagraph

SpecParagraph == InitParagraph /\ [][NextParagraph]_vars

(***************************************************************************)
(* The driver: one call of process_document, any step of which may raise   *)
(***************************************************************************)
InitDocument ==
    /\ doc_pc = "start"
    /\ input_file \in Path
    /\ output_file \in Path \cup {None}
    /\ given_output = output_file
    /\ doc = <<>>
    /\ paragraph_count = 0
    /\ table_count = 0
    /\ \E d \in {Absent} \cup [kind : {"docx"},
                            paragraphs : Strings(DocParagraph, 0, MaxDocParagraphs),
                            tables : Strings(DocTable, 0, MaxDocTables)] :
           disk = [p \in Path |-> IF p = input_file THEN d ELSE Absent]
    /\ disk_before = disk
    /\ save_calls = 0
    /\ saved = FALSE
    /\ doc_result = <<>>
    /\ FormatIdle
    /\ TextIdle
    /\ ParagraphIdle
    /\ GuiIdle

otherThanDocument == <<formatVars, textVars, paragraphVars, guiVars>>

\* doc = Document(input_file)
OpenDocument ==
    /\ doc_pc = "start"
    /\ disk[input_file].kind = "docx"
    /\ doc' = <<disk[input_file]>>
    /\ doc_pc' = "processing"
    /\ UNCHANGED <<input_file, output_file, given_output, paragraph_count, table_count,
                   disk, disk_before, save_calls, saved, doc_result, otherThanDocument>>

\* Document(input_file) raises: no such file, not a document, not readable
OpenDocumentRaises ==
    /\ doc_pc = "start"
    /\ Raise("open")
    /\ UNCHANGED <<input_file, output_file, given_output, doc, paragraph_count, table_count,
                   disk, disk_before, save_calls, saved, otherThanDocument>>

\* one turn of the loop over doc.paragraphs
ProcessDocumentParagraph ==
    /\ doc_pc = "processing"
    /\ paragraph_count < Len(doc[1].paragraphs)
    /\ doc' = <<[doc[1] EXCEPT !.paragraphs[paragraph_count + 1] =
                     process_paragraph(doc[1].paragraphs[paragraph_count + 1])]>>
    /\ paragraph_count' = paragraph_count + 1
    /\ UNCHANGED <<doc_pc, input_file, output_file, given_output, table_count,
                   disk, disk_before, save_calls, saved, doc_result, otherThanDocument>>

\* process_paragraph raises on a top-level paragraph
DocumentParagraphRaises ==
    /\ doc_pc = "processing"
    /\ paragraph_count < Len(doc[1].paragraphs)
    /\ Raise("paragraph")
    /\ UNCHANGED <<input_file, output_file, given_output, doc, paragraph_count, table_count,
                   disk, disk_before, save_calls, saved, otherThanDocument>>

\* one turn of the loop over doc.tables
ProcessDocumentTable ==
    /\ doc_pc = "processing"
    /\ paragraph_count = Len(doc[1].paragraphs)
    /\ table_count < Len(doc[1].tables)
    /\ doc' = <<[doc[1] EXCEPT !.tables[table_count + 1] =
                     process_table(doc[1].tables[table_count + 1])]>>
    /\ table_count' = table_count + 1
    /\ UNCHANGED <<doc_pc, input_file, output_file, given_output, paragraph_count,
                   disk, disk_before, save_calls, saved, doc_result, otherThanDocument>>

\* process_table_cell raises on a cell of the table
DocumentTableRaises ==
    /\ doc_pc = "processing"
    /\ paragraph_count = Len(doc[1].paragraphs)
    /\ table_count < Len(doc[1].tables)
    /\ Raise("table")
    /\ UNCHANGED <<input_file, output_file, given_output, doc, paragraph_count, table_count,
                   disk, disk_before, save_calls, saved, otherThanDocument>>

\* if output_file is None: output_file = input_file; doc.save(output_file); return {...}
SaveDocument ==
    /\ doc_pc = "processing"
    /\ paragraph_count = Len(doc[1].paragraphs)
    /\ table_count = Len(doc[1].tables)
    /\ output_file' = IF output_file = None THEN input_file ELSE output_file
    /\ save_calls' = save_calls + 1
    /\ disk' = [disk EXCEPT ![output_file'] = doc[1]]
    /\ saved' = TRUE
    /\ doc_result' = <<SuccessResult>>
    /\ doc_pc' = "returned"
    /\ UNCHANGED <<input_file, given_output, doc, paragraph_count, table_count,
                   disk_before, otherThanDocument>>

\* doc.save(output_file) raises, having written nothing or a part of the file
SaveDocumentRaises ==
    /\ doc_pc = "processing"
    /\ paragraph_count = Len(doc[1].paragraphs)
    /\ table_count = Len(doc[1].tables)
    /\ output_file' = IF output_file = None THEN input_file ELSE output_file
    /\ save_calls' = save_calls + 1
    /\ \/ disk' = disk
       \/ disk' = [disk EXCEPT ![output_file'] = Partial]
    /\ Raise("save")
    /\ UNCHANGED <<input_file, given_output, doc, paragraph_count, table_count,
                   disk_before, saved, otherThanDocument>>

NextDocument ==
    \/ OpenDocument
    \/ OpenDocumentRaises
    \/ ProcessDocumentParagraph
    \/ DocumentParagraphRaises
    \/ ProcessDocumentTable
    \/ DocumentTableRaises
    \/ SaveDocument
    \/ SaveDocumentRaises

SpecDocument == InitDocument /\ [][NextDocument]_vars

(***************************************************************************)
(* The GUI: the main thread's event handlers and the worker thread that    *)
(* process_file starts. The worker's reads of the GUI's attributes are     *)
(* steps of their own: the main loop handles events between them.          *)
(***************************************************************************)
InputChoice == {"a.docx", "b.docx"}
OutputChoice == {"x.docx", "y.docx"}

InitGui ==
    /\ GuiIdle
    /\ FormatIdle
    /\ TextIdle
    /\ ParagraphIdle
    /\ DocumentIdle

otherThanGui == <<formatVars, textVars, paragraphVars, documentVars>>

\* select_input_file, the dialog answered with a file (a cancelled dialog changes nothing)
select_input_file ==
    /\ \E filename \in InputChoice : self_input_file' = filename
    /\ UNCHANGED <<self_output_file, overwrite_var, output_frame_shown, process_btn,
                   worker_pc, output, call, pressed, otherThanGui>>

\* select_output_file, the dialog answered with a file; without an input file it
\* only warns
select_output_file ==
    /\ self_input_file # None
    /\ \E filename \in OutputChoice : self_output_file' = filename
    /\ UNCHANGED <<self_input_file, overwrite_var, output_frame_shown, process_btn,
                   worker_pc, output, call, pressed, otherThanGui>>

\* a click on one of the two radio buttons: the variable takes the button's
\* value, then toggle_output_option shows or hides the output row
toggle_output_option ==
    /\ \E value \in BOOLEAN : overwrite_var' = value
    /\ output_frame_shown' = ~overwrite_var'
    /\ UNCHANGED <<self_input_file, self_output_file, process_btn,
                   worker_pc, output, call, pressed, otherThanGui>>

\* process_file, up to thread.start(); chosen is the answer to the dialog it opens
\* when save-as is selected and no output file is (None: cancelled)
process_file ==
    /\ process_btn = "normal"
    /\ self_input_file # None
    /\ \E chosen \in OutputChoice \cup {None} :
           /\ self_output_file' =
                  IF ~overwrite_var /\ self_output_file = None THEN chosen ELSE self_output_file
           /\ (overwrite_var \/ self_output_file' # None)
    /\ process_btn' = "disabled"
    /\ worker_pc' = "read_overwrite_var"
    /\ call' = <<>>
    /\ pressed' = <<[input_file |-> self_input_file, output_file |-> self_output_file',
                     overwrite |-> overwrite_var]>>
    /\ UNCHANGED <<self_input_file, overwrite_var, output_frame_shown, output, otherThanGui>>

\* line 428, the condition: not self.overwrite_var.get()
worker_reads_overwrite_var ==
    /\ worker_pc = "read_overwrite_var"
    /\ IF overwrite_var
       THEN output' = None /\ worker_pc' = "read_input_file"
       ELSE output' = output /\ worker_pc' = "read_output_file"
    /\ UNCHANGED <<self_input_file, self_output_file, overwrite_var, output_frame_shown,
                   process_btn, call, pressed, otherThanGui>>

\* line 428, output = self.output_file
worker_reads_output_file ==
    /\ worker_pc = "read_output_file"
    /\ output' = self_output_file
    /\ worker_pc' = "read_input_file"
    /\ UNCHANGED <<self_input_file, self_output_file, overwrite_var, output_frame_shown,
                   process_btn, call, pressed, otherThanGui>>

\* line 429: self.formatter.process_document(self.input_file, output)
worker_calls_process_document ==
    /\ worker_pc = "read_input_file"
    /\ call' = <<[input_file |-> self_input_file, output_file |-> output]>>
    /\ worker_pc' = "process_document"
    /\ UNCHANGED <<self_input_file, self_output_file, overwrite_var, output_frame_shown,
                   process_btn, output, pressed, otherThanGui>>

\* process_document returns; line 432 posts _process_complete to the main loop
worker_posts_result ==
    /\ worker_pc = "process_document"
    /\ worker_pc' = "posted"
    /\ UNCHANGED <<self_input_file, self_output_file, overwrite_var, output_frame_shown,
                   process_btn, output, call, pressed, otherThanGui>>

\* _process_complete, on the main thread
process_complete ==
    /\ worker_pc = "posted"
    /\ worker_pc' = "none"
    /\ process_btn' = "normal"
    /\ UNCHANGED <<self_input_file, self_output_file, overwrite_var, output_frame_shown,
                   output, call, pressed, otherThanGui>>

NextGui ==
    \/ select_input_file
    \/ select_output_file
    \/ toggle_output_option
    \/ process_file
    \/ worker_reads_overwrite_var
    \/ worker_reads_output_file
    \/ worker_calls_process_document
    \/ worker_posts_result
    \/ process_complete

SpecGui == InitGui /\ [][NextGui]_vars

(***************************************************************************)
(* Properties of format_number (checked under SpecFormat)                  *)
(***************************************************************************)
\* s is written in the numeric grammar: optional '-', digits, optional '.' and digits
IsNumericLiteral(s) ==
    LET body == IF Len(s) >= 1 /\ s[1] = "-" THEN Drop(s, 1) ELSE s
        dots == Positions(body, ".")
    IN  IF dots = {} THEN IsDigits(body)
        ELSE /\ Cardinality(dots) = 1
             /\ \A p \in dots : IsDigits(SubSeq(body, 1, p - 1)) /\ IsDigits(Drop(body, p))

\* s is the decimal text of a non-negative integer
IsCanonicalNatural(s) == IsDigits(s) /\ (Len(s) = 1 \/ s[1] # "0")

IsNotComma(c) == c # ","

RemoveCommas(s) == SelectSeq(s, IsNotComma)

\* C2: on the decimal text of a non-negative integer, format_number returns the
\* same digits in the same order, with a comma exactly before every group of
\* three digits counted from the right, never a leading comma, and the text
\* itself below 1000.
C2_GroupingCorrect ==
    (result # NoValue /\ IsCanonicalNatural(num_str)) =>
        /\ RemoveCommas(result) = num_str
        /\ result[1] # ","
        /\ \A j \in 1..Len(result) :
               (result[j] = ",") <=> ((Len(result) - j + 1) % 4 = 0)
        /\ (Len(num_str) <= 3 => result = num_str)

C2_Witness ==
    /\ num_str = <<"1", "0", "0", "0", "0", "0", "0">>
    /\ result = <<"1", ",", "0", "0", "0", ",", "0", "0", "0">>

\* C3: on a literal of the numeric grammar, the output of format_number begins
\* with '-' exactly when the input does, and from the decimal point to the end
\* the output is the input's decimal part, character for character; without a
\* decimal part the output has no point.
C3_SignAndDecimalPreserved ==
    (result # NoValue /\ IsNumericLiteral(num_str)) =>
        /\ (result[1] = "-") <=> (num_str[1] = "-")
        /\ Cardinality(Positions(result, ".")) = Cardinality(Positions(num_str, "."))
        /\ \A p \in Positions(num_str, ".") : \A q \in Positions(result, ".") :
               Drop(result, q - 1) = Drop(num_str, p - 1)

C3_Witness ==
    /\ num_str = <<"-", "1", "0", "0", "0", "0", ".", "0", "0">>
    /\ result = <<"-", "1", "0", ",", "0", "0", "0", ".", "0", "0">>

C1_SecondPassChangesNothing ==
    [][original # NoValue => cur_text' = cur_text]_vars

\* the markers of the single-character adjacency rule
ExclusionMarker == {"nian", "yue", "ri", "shi", "fen", "miao", "-", "/", ".", "%"}

\* the literal around the digit run that starts at p: its sign when a '-' stands
\* before the run, and its decimal part when a point and digits follow it
LiteralAround(t, p) ==
    LET q == p + DigitRun(t, p)
        e == IF q <= Len(t) /\ t[q] = "." /\ DigitRun(t, q + 1) > 0
             THEN q + 1 + DigitRun(t, q + 1) ELSE q
    IN  <<IF p > 1 /\ t[p - 1] = "-" THEN p - 1 ELSE p, e>>

\* the spans of t that are numeric literals and lie in no longer one
MaximalLiterals(t) ==
    LET starts == {p \in 1..Len(t) : t[p] \in Digit /\ (p = 1 \/ t[p - 1] \notin Digit)}
        lits   == {LiteralAround(t, p) : p \in starts}
    IN  {x \in lits : \A y \in lits : (y[1] <= x[1] /\ x[2] <= y[2]) => y = x}

\* the maximal literals with a marker right before or right after them
ExcludedLiterals(t) ==
    {x \in MaximalLiterals(t) :
        \/ x[1] > 1 /\ t[x[1] - 1] \in ExclusionMarker
        \/ x[2] <= Len(t) /\ t[x[2]] \in ExclusionMarker}

Overlap(x, y) == x[1] < y[2] /\ y[1] < x[2]

\* C4: a maximal numeric literal with one of the ten markers right before its
\* first or right after its last character comes out of process_text as it
\* went in: every match that touches it is put back unchanged.
C4_ExcludedLiteralsUnchanged ==
    original # NoValue =>
        LET spans    == finditer(original, 1)
            excluded == ExcludedLiterals(original)
            kept(m)  == \E x \in excluded : Overlap(m, x)
        IN  cur_text = Splice(original, spans,
                [i \in 1..Len(spans) |->
                    IF kept(spans[i]) THEN SubSeq(original, spans[i][1], spans[i][2] - 1)
                    ELSE replace_number(original, spans[i][1], spans[i][2])], 1)

C4_Witness ==
    /\ original = <<"1", "0", "0", "0", " ", "1", "0", "0", "0", "%">>
    /\ cur_text = <<"1", ",", "0", "0", "0", " ", "1", "0", "0", "0", "%">>

\* C8: a match of exactly four digits, not excluded by the adjacency rule, with
\* a value in 1900..2999 is left as it is exactly when one of the (up to) two
\* characters after it is the year marker, '-' or '/', and is otherwise written
\* with a comma after its first digit; a four-digit match outside that range
\* is always handed to the formatter.
C8_YearHeuristic ==
    original # NoValue =>
        LET spans == finditer(original, 1)
            t == original
            covered(m) ==
                /\ m[2] - m[1] = 4
                /\ IsDigits(SubSeq(t, m[1], m[2] - 1))
                /\ ~(m[1] > 1 /\ t[m[1] - 1] \in ExclusionMarker)
                /\ ~(m[2] <= Len(t) /\ t[m[2]] \in ExclusionMarker)
            inRange(m) ==
                /\ DigitsValue(SubSeq(t, m[1], m[2] - 1)) >= 1900
                /\ DigitsValue(SubSeq(t, m[1], m[2] - 1)) <= 2999
            dated(m) ==
                \E j \in {m[2], m[2] + 1} : j <= Len(t) /\ t[j] \in {"nian", "-", "/"}
            claimed(m) ==
                IF inRange(m)
                THEN IF dated(m) THEN SubSeq(t, m[1], m[2] - 1)
                     ELSE <<t[m[1]], ",", t[m[1] + 1], t[m[1] + 2], t[m[1] + 3]>>
                ELSE format_number(SubSeq(t, m[1], m[2] - 1))
        IN  cur_text = Splice(t, spans,
                [i \in 1..Len(spans) |->
                    IF covered(spans[i]) THEN claimed(spans[i])
                    ELSE replace_number(t, spans[i][1], spans[i][2])], 1)

C8_Witness ==
    /\ original = <<"2", "0", "2", "4", " ", "-">>
    /\ cur_text = <<"2", "0", "2", "4", " ", "-">>

(***************************************************************************)
(* Properties of process_paragraph (checked under SpecParagraph)           *)
(***************************************************************************)
HasDigit(t) == \E i \in 1..Len(t) : t[i] \in Digit

\* C5: when the paragraph has runs, its text T is not empty and process_text
\* changes T, the call leaves the same runs in the same order, the first one
\* holding process_text(T) and the highlight, every other one empty.
C5_CollapsedIntoFirstRun ==
    runs_before # <<>> =>
        LET before == runs_before[1]
            T      == paragraph_text(before)
        IN  (Len(before) >= 1 /\ T # <<>> /\ process_text(T) # T) =>
                /\ Len(runs) = Len(before)
                /\ \A i \in 1..Len(runs) : runs[i].id = before[i].id
                /\ runs[1].text = process_text(T)
                /\ runs[1].shd = Yellow
                /\ \A i \in 2..Len(runs) : runs[i].text = <<>>

C5_Witness ==
    /\ runs_before # <<>>
    /\ Len(runs_before[1]) = 3
    /\ runs_before[1][1].text = <<" ">>
    /\ runs_before[1][2].text = <<"1", "0">>
    /\ runs_before[1][3].text = <<"0", "0", "0">>
    /\ runs[1].text = <<" ", "1", "0", ",", "0", "0", "0">>
    /\ runs[1].shd = Yellow
    /\ runs[2].text = <<>>
    /\ runs[3].text = <<>>

\* C6: when the paragraph has no runs, or its text is empty, or process_text
\* leaves its text unchanged (as it does for a text without a digit), the call
\* leaves every run's text and shading as they were.
C6_NoOpLeavesRuns ==
    runs_before # <<>> =>
        LET before == runs_before[1]
            T      == paragraph_text(before)
        IN  /\ (Len(before) = 0 \/ T = <<>> \/ process_text(T) = T) => runs = before
            /\ ~HasDigit(T) => runs = before

C6_Witness ==
    /\ runs_before # <<>>
    /\ Len(runs_before[1]) = 2
    /\ runs_before[1][1] = [id |-> 1, text |-> <<"1", "0">>, shd |-> NoShd]
    /\ runs_before[1][2] = [id |-> 2, text |-> <<"a">>, shd |-> "00FF00"]
    /\ runs = runs_before[1]

(***************************************************************************)
(* Properties of process_document (checked under SpecDocument)             *)
(***************************************************************************)
\* C7: whichever step fails, no exception leaves process_document and the
\* result is a failure with a message and no output path; save is invoked at
\* most once and only after every paragraph and table was processed, so that
\* before save nothing is written; a success is returned only after save
\* completed and carries the effective output path.
C7_SingleFailureBoundary ==
    /\ doc_pc # "raised"
    /\ save_calls <= 1
    /\ save_calls = 1 =>
           /\ doc # <<>>
           /\ paragraph_count = Len(doc[1].paragraphs)
           /\ table_count = Len(doc[1].tables)
    /\ save_calls = 0 => disk = disk_before
    /\ doc_pc = "returned" => doc_result # <<>>
    /\ doc_result # <<>> =>
           IF doc_result[1].success
           THEN /\ saved
                /\ doc_result[1].output_file =
                       (IF given_output = None THEN input_file ELSE given_output)
                /\ disk[doc_result[1].output_file] = doc[1]
           ELSE /\ doc_result[1].output_file = None
                /\ doc_result[1].message # <<>>

C7_Witness ==
    /\ doc_result # <<>>
    /\ ~doc_result[1].success
    /\ doc_result[1].message = <<"failed", "save">>
    /\ paragraph_count = 2
    /\ table_count = 1
    /\ given_output = None

(***************************************************************************)
(* Properties of the GUI's hand-off (checked under SpecGui)                *)
(***************************************************************************)
\* C10: the worker's process_document call uses the input file, the overwrite
\* choice and the output file as they were when the worker was started.
C10_WorkerUsesSelectionsAtStart ==
    (call # <<>> /\ pressed # <<>>) =>
        /\ call[1].input_file = pressed[1].input_file
        /\ call[1].output_file =
               (IF pressed[1].overwrite THEN None ELSE pressed[1].output_file)

====
